---- MODULE Spec2Model ----
(***************************************************************************)
(* Ledger engine of the collection tracker (services/database.ts and the   *)
(* backup code of services/export.ts) as a state machine over the SQLite   *)
(* tables people, cycles, collections and withdrawals.                     *)
(*                                                                         *)
(* Every exported function of the engine is an operator over a "run"       *)
(* record R = [db, fuel, err, halted, ret]: db is the store, fuel the      *)
(* number of storage writes the process still survives (negative: it is    *)
(* not interrupted), err says that a statement has thrown, halted that the *)
(* process was killed before a write, ret is the lastInsertRowId of the    *)
(* last INSERT.  A write is one database.runAsync call.                    *)
(*                                                                         *)
(* The collections table carries no rowid in the model: no statement of    *)
(* the engine reads collections.id, rows are addressed by (person_id,      *)
(* date) or by cycle_id only.                                              *)
(***************************************************************************)
EXTENDS Integers, FiniteSets, Sequences, TLC

\* ---- bounds of the model ----
MaxDay == 2
MaxAmount == 2
MaxPersonId == 2
MaxCycleId == 3
MaxOps == 4

\* SQL NULL / JS null or undefined in a numeric column
NULL == 0 - 1
\* fuel of a call that is not interrupted
Unlimited == 0 - 1

Days == 1 .. MaxDay
Amounts == 0 .. MaxAmount
PersonIds == 1 .. MaxPersonId
CycleIds == 1 .. MaxCycleId

\* db: the SQLite tables; today: the calendar day getTodayDate returns;
\* last: the engine call made last and how it ended; ops: the steps taken
\* so far (engine calls and midnights); crashed: whether the process was ever
\* killed during a call; scenario: the amounts of the reference scenario
\* being played, if one is; inflight: the engine calls that have started and
\* not returned, each with its position and its local variables, and the
\* store as it was when the first of them started
VARIABLES db, today, last, ops, crashed, scenario, inflight

vars == <<db, today, last, ops, crashed, scenario, inflight>>

\* ---- the store ----

\* the tables right after initializeDatabase on a fresh file
EmptyDb ==
    [people |-> {}, cycles |-> {}, collections |-> {}, withdrawals |-> {},
     seqPeople |-> 0, seqCycles |-> 0, seqWithdrawals |-> 0]

Begin(S, fuel) ==
    [db |-> S, fuel |-> fuel, err |-> FALSE, halted |-> FALSE, ret |-> NULL]

\* one database.runAsync: skipped once the call has thrown or the process is
\* gone; the process dies here when no fuel is left; a violated constraint
\* throws; otherwise the statement is applied
runAsync(R, constraintOk, newDb, rowId) ==
    IF R.err \/ R.halted THEN R
    ELSE IF R.fuel = 0 THEN [R EXCEPT !.halted = TRUE]
    ELSE IF ~constraintOk THEN [R EXCEPT !.err = TRUE]
    ELSE [db |-> newDb,
          fuel |-> IF R.fuel > 0 THEN R.fuel - 1 ELSE R.fuel,
          err |-> FALSE, halted |-> FALSE, ret |-> rowId]

\* throw new Error(...)
throw(R) ==
    IF R.err \/ R.halted THEN R ELSE [R EXCEPT !.err = TRUE]

PersonExists(S, personId) == \E p \in S.people : p.id = personId

CycleExists(S, cycleId) == \E c \in S.cycles : c.id = cycleId

\* ---- cycle operations ----

NoCycle ==
    [id |-> NULL, personId |-> NULL, startDate |-> NULL, endDate |-> NULL,
     totalAmount |-> 0, isActive |-> FALSE]

ActiveCycles(S, personId) ==
    {c \in S.cycles : c.personId = personId /\ c.isActive}

\* getActiveCycle with a plausible slip: the query lacks AND is_active = 1
getActiveCycleOfAnyState(S, personId) ==
    LET rows == {c \in S.cycles : c.personId = personId}
    IN  IF rows = {} THEN NoCycle
        ELSE CHOOSE c \in rows : \A o \in rows : c.id <= o.id

\* getFirstAsync over cycles: the first matching row in rowid order, or null
getActiveCycle(S, personId) ==
    LET rows == ActiveCycles(S, personId)
    IN  IF rows = {} THEN NoCycle
        ELSE CHOOSE c \in rows : \A o \in rows : c.id <= o.id

\* INSERT INTO cycles (person_id, start_date, is_active, total_amount)
\* VALUES (?, today, 1, 0); person_id is a foreign key into people
createCycle(R, personId, day) ==
    LET S == R.db
        newId == S.seqCycles + 1
        row == [id |-> newId, personId |-> personId, startDate |-> day,
                endDate |-> NULL, totalAmount |-> 0, isActive |-> TRUE]
    IN  runAsync(R, PersonExists(S, personId),
                 [S EXCEPT !.cycles = @ \cup {row}, !.seqCycles = newId],
                 newId)

\* closeCycle with a plausible slip: the end date is set, is_active is not cleared
closeCycleKeepsActive(R, cycleId, day) ==
    LET S == R.db
    IN  runAsync(R, TRUE,
                 [S EXCEPT !.cycles =
                     {IF c.id = cycleId
                         THEN [c EXCEPT !.endDate = day]
                         ELSE c : c \in @}],
                 R.ret)

\* closeCycle as it would be if closing a cycle also reset its total
closeCycleZeroesTotal(R, cycleId, day) ==
    LET S == R.db
    IN  runAsync(R, TRUE,
                 [S EXCEPT !.cycles =
                     {IF c.id = cycleId
                         THEN [c EXCEPT !.isActive = FALSE, !.endDate = day,
                                        !.totalAmount = 0]
                         ELSE c : c \in @}],
                 R.ret)

\* UPDATE cycles SET is_active = 0, end_date = today WHERE id = ?
closeCycle(R, cycleId, day) ==
    LET S == R.db
    IN  runAsync(R, TRUE,
                 [S EXCEPT !.cycles =
                     {IF c.id = cycleId
                         THEN [c EXCEPT !.isActive = FALSE, !.endDate = day]
                         ELSE c : c \in @}],
                 R.ret)

\* UPDATE cycles SET total_amount = total_amount + ? WHERE id = ?
addToTotal(S, cycleId, delta) ==
    [S EXCEPT !.cycles =
        {IF c.id = cycleId
            THEN [c EXCEPT !.totalAmount = @ + delta]
            ELSE c : c \in @}]

\* updateCycleData(cycleId, {totalAmount?, startDate?}); NULL is undefined
updateCycleData(S, cycleId, totalAmount, startDate, fuel) ==
    LET R == Begin(S, fuel)
    IN  IF totalAmount = NULL /\ startDate = NULL THEN R
        ELSE runAsync(R, TRUE,
                 [S EXCEPT !.cycles =
                     {IF c.id = cycleId
                         THEN [c EXCEPT
                               !.totalAmount =
                                   IF totalAmount = NULL THEN @ ELSE totalAmount,
                               !.startDate =
                                   IF startDate = NULL THEN @ ELSE startDate]
                         ELSE c : c \in @}],
                 NULL)

\* ---- people operations ----

\* addPerson: INSERT INTO people, then createCycle(lastInsertRowId)
addPerson(S, isActive, day, fuel) ==
    LET R0 == Begin(S, fuel)
        newId == S.seqPeople + 1
        R1 == runAsync(R0, TRUE,
                  [S EXCEPT !.people = @ \cup {[id |-> newId, isActive |-> isActive]},
                            !.seqPeople = newId],
                  newId)
    IN  createCycle(R1, newId, day)

\* deletePerson with a plausible slip: DELETE FROM people WHERE id = ?, which
\* takes the person's cycles, collections and withdrawals along (ON DELETE
\* CASCADE)
deletePersonPhysically(S, id, fuel) ==
    runAsync(Begin(S, fuel), TRUE,
        [S EXCEPT !.people = {p \in @ : p.id # id},
                  !.cycles = {c \in @ : c.personId # id},
                  !.collections = {r \in @ : r.personId # id},
                  !.withdrawals = {w \in @ : w.personId # id}],
        NULL)

\* deletePerson: UPDATE people SET is_active = 0 WHERE id = ?
deletePerson(S, id, fuel) ==
    runAsync(Begin(S, fuel), TRUE,
        [S EXCEPT !.people =
            {IF p.id = id THEN [p EXCEPT !.isActive = FALSE] ELSE p : p \in @}],
        NULL)

\* ---- collection operations ----

NoRow ==
    [personId |-> NULL, cycleId |-> NULL, date |-> NULL, amount |-> NULL,
     status |-> "none"]

RowsAt(S, personId, day) ==
    {r \in S.collections : r.personId = personId /\ r.date = day}

\* getTodayCollection: getFirstAsync over collections for (person, today)
getTodayCollection(S, personId, day) ==
    IF RowsAt(S, personId, day) = {} THEN NoRow
    ELSE CHOOSE r \in RowsAt(S, personId, day) : TRUE

\* (existing?.status === 'collected' && existing.amount) || 0
collectedAmount(row) ==
    IF row.status = "collected" /\ row.amount # NULL /\ row.amount # 0
        THEN row.amount ELSE 0

\* INSERT OR REPLACE with a plausible slip: the table lacks the UNIQUE
\* constraint on (person_id, date), so nothing is in conflict
insertOrReplaceCollectionNoUnique(S, row) ==
    [S EXCEPT !.collections = @ \cup {row}]

\* INSERT OR REPLACE INTO collections: UNIQUE(person_id, date) removes the
\* row in conflict before the insert
insertOrReplaceCollection(S, row) ==
    [S EXCEPT !.collections =
        (@ \ RowsAt(S, row.personId, row.date)) \cup {row}]

\* the foreign keys of a collections or withdrawals row
ForeignKeysOk(S, personId, cycleId) ==
    PersonExists(S, personId) /\ CycleExists(S, cycleId)

RECURSIVE sumOfAmounts(_)
\* COALESCE(SUM(amount), 0) over collections rows
sumOfAmounts(rows) ==
    IF rows = {} THEN 0
    ELSE LET r == CHOOSE x \in rows : TRUE
         IN  (IF r.amount = NULL THEN 0 ELSE r.amount) + sumOfAmounts(rows \ {r})

\* updateCycleTotal: UPDATE cycles SET total_amount = (SELECT SUM(amount) FROM
\* collections WHERE cycle_id = ? AND status = 'collected') WHERE id = ?; no
\* function of the engine calls it
updateCycleTotal(R, cycleId) ==
    LET S == R.db
        collected == {r \in S.collections :
                         r.cycleId = cycleId /\ r.status = "collected"}
    IN  runAsync(R, TRUE,
            [S EXCEPT !.cycles =
                {IF c.id = cycleId
                    THEN [c EXCEPT !.totalAmount = sumOfAmounts(collected)]
                    ELSE c : c \in @}],
            NULL)

\* recordCollection with a plausible slip: the total is recomputed from the
\* cycle's rows by updateCycleTotal
recordCollectionRecomputes(S, personId, amount, day, fuel) ==
    LET R0 == Begin(S, fuel)
        found == getActiveCycle(S, personId)
        R1 == IF found = NoCycle THEN createCycle(R0, personId, day) ELSE R0
        cycleId == IF found = NoCycle THEN R1.ret ELSE found.id
        R2 == runAsync(R1, ForeignKeysOk(R1.db, personId, cycleId),
                  insertOrReplaceCollection(R1.db,
                      [personId |-> personId, cycleId |-> cycleId, date |-> day,
                       amount |-> amount, status |-> "collected"]),
                  NULL)
    IN  updateCycleTotal(R2, cycleId)

\* recordCollection with a plausible slip: no cycle is created when the person
\* has none
recordCollectionNoLazyCycle(S, personId, amount, day, fuel) ==
    LET R0 == Begin(S, fuel)
        found == getActiveCycle(S, personId)
        cycleId == found.id
        existingCollection == getTodayCollection(S, personId, day)
        existingAmount == collectedAmount(existingCollection)
        R2 == runAsync(R0, ForeignKeysOk(S, personId, cycleId),
                  insertOrReplaceCollection(S,
                      [personId |-> personId, cycleId |-> cycleId, date |-> day,
                       amount |-> amount, status |-> "collected"]),
                  NULL)
        difference == amount - existingAmount
    IN  runAsync(R2, TRUE, addToTotal(R2.db, cycleId, difference), NULL)

\* recordCollection with a plausible slip: the whole amount is added to the
\* total, not the difference to the amount already stored for the day
recordCollectionAddsAmount(S, personId, amount, day, fuel) ==
    LET R0 == Begin(S, fuel)
        found == getActiveCycle(S, personId)
        R1 == IF found = NoCycle THEN createCycle(R0, personId, day) ELSE R0
        cycleId == IF found = NoCycle THEN R1.ret ELSE found.id
        R2 == runAsync(R1, ForeignKeysOk(R1.db, personId, cycleId),
                  insertOrReplaceCollection(R1.db,
                      [personId |-> personId, cycleId |-> cycleId, date |-> day,
                       amount |-> amount, status |-> "collected"]),
                  NULL)
    IN  runAsync(R2, TRUE, addToTotal(R2.db, cycleId, amount), NULL)

recordCollection(S, personId, amount, day, fuel) ==
    LET R0 == Begin(S, fuel)
        found == getActiveCycle(S, personId)
        R1 == IF found = NoCycle THEN createCycle(R0, personId, day) ELSE R0
        cycleId == IF found = NoCycle THEN R1.ret ELSE found.id
        existingCollection == getTodayCollection(R1.db, personId, day)
        existingAmount == collectedAmount(existingCollection)
        R2 == runAsync(R1, ForeignKeysOk(R1.db, personId, cycleId),
                  insertOrReplaceCollection(R1.db,
                      [personId |-> personId, cycleId |-> cycleId, date |-> day,
                       amount |-> amount, status |-> "collected"]),
                  NULL)
        difference == amount - existingAmount
    IN  runAsync(R2, TRUE, addToTotal(R2.db, cycleId, difference), NULL)

\* skipCollection with a plausible slip: the collected amount the day held is
\* taken off the total, as recordCollection does with its difference
skipCollectionSubtracts(S, personId, day, fuel) ==
    LET R0 == Begin(S, fuel)
        found == getActiveCycle(S, personId)
        R1 == IF found = NoCycle THEN createCycle(R0, personId, day) ELSE R0
        cycleId == IF found = NoCycle THEN R1.ret ELSE found.id
        existingAmount == collectedAmount(getTodayCollection(R1.db, personId, day))
        R2 == runAsync(R1, ForeignKeysOk(R1.db, personId, cycleId),
                  insertOrReplaceCollection(R1.db,
                      [personId |-> personId, cycleId |-> cycleId, date |-> day,
                       amount |-> NULL, status |-> "skipped"]),
                  NULL)
    IN  runAsync(R2, TRUE, addToTotal(R2.db, cycleId, 0 - existingAmount), NULL)

skipCollection(S, personId, day, fuel) ==
    LET R0 == Begin(S, fuel)
        found == getActiveCycle(S, personId)
        R1 == IF found = NoCycle THEN createCycle(R0, personId, day) ELSE R0
        cycleId == IF found = NoCycle THEN R1.ret ELSE found.id
    IN  runAsync(R1, ForeignKeysOk(R1.db, personId, cycleId),
            insertOrReplaceCollection(R1.db,
                [personId |-> personId, cycleId |-> cycleId, date |-> day,
                 amount |-> NULL, status |-> "skipped"]),
            NULL)

\* undoCollection with a plausible slip: the row is deleted, the total is kept
undoCollectionKeepsTotal(S, personId, day, fuel) ==
    runAsync(Begin(S, fuel), TRUE,
        [S EXCEPT !.collections = @ \ RowsAt(S, personId, day)],
        NULL)

\* undoCollection with a plausible slip: the amount is taken off the cycle the
\* deleted row referenced, not off the person's active cycle
undoCollectionOfRowCycle(S, personId, day, fuel) ==
    LET R0 == Begin(S, fuel)
        existingCollection == getTodayCollection(S, personId, day)
        amountToSubtract == collectedAmount(existingCollection)
        R1 == runAsync(R0, TRUE,
                  [S EXCEPT !.collections = @ \ RowsAt(S, personId, day)],
                  NULL)
    IN  IF amountToSubtract > 0
            THEN runAsync(R1, TRUE,
                     addToTotal(R1.db, existingCollection.cycleId,
                                0 - amountToSubtract), NULL)
            ELSE R1

undoCollection(S, personId, day, fuel) ==
    LET R0 == Begin(S, fuel)
        existingCollection == getTodayCollection(S, personId, day)
        amountToSubtract == collectedAmount(existingCollection)
        R1 == runAsync(R0, TRUE,
                  [S EXCEPT !.collections = @ \ RowsAt(S, personId, day)],
                  NULL)
        cycle == getActiveCycle(R1.db, personId)
    IN  IF amountToSubtract > 0 /\ cycle # NoCycle
            THEN runAsync(R1, TRUE,
                     addToTotal(R1.db, cycle.id, 0 - amountToSubtract), NULL)
            ELSE R1

\* ---- withdrawal operations ----

\* INSERT INTO withdrawals (person_id, cycle_id, amount, notes)
insertWithdrawal(R, personId, cycleId, amount, day) ==
    LET S == R.db
        newId == S.seqWithdrawals + 1
    IN  runAsync(R, ForeignKeysOk(S, personId, cycleId),
            [S EXCEPT !.withdrawals = @ \cup
                        {[id |-> newId, personId |-> personId,
                          cycleId |-> cycleId, amount |-> amount, date |-> day]},
                      !.seqWithdrawals = newId],
            newId)

\* processWithdrawal with a plausible slip: the withdrawal is inserted after
\* the new cycle exists, with the balance of the cycle that is active then
processWithdrawalOfNewCycle(S, personId, day, fuel) ==
    LET R0 == Begin(S, fuel)
        cycle == getActiveCycle(S, personId)
    IN  IF cycle = NoCycle THEN throw(R0)
        ELSE LET R1 == closeCycle(R0, cycle.id, day)
                 R2 == createCycle(R1, personId, day)
             IN  insertWithdrawal(R2, personId, cycle.id,
                     getActiveCycle(R2.db, personId).totalAmount, day)

\* processWithdrawal with a plausible slip: a missing active cycle is created,
\* as recordCollection does, where the function should throw
processWithdrawalCreatesCycle(S, personId, day, fuel) ==
    LET R0 == Begin(S, fuel)
        found == getActiveCycle(S, personId)
        R1 == IF found = NoCycle THEN createCycle(R0, personId, day) ELSE R0
        cycle == IF found = NoCycle THEN getActiveCycle(R1.db, personId) ELSE found
        R2 == insertWithdrawal(R1, personId, cycle.id, cycle.totalAmount, day)
        R3 == closeCycle(R2, cycle.id, day)
    IN  createCycle(R3, personId, day)

\* processWithdrawal with a plausible slip: the slate is wiped for good, the
\* rows of the closed cycle are deleted
processWithdrawalClearsRows(S, personId, day, fuel) ==
    LET R0 == Begin(S, fuel)
        cycle == getActiveCycle(S, personId)
    IN  IF cycle = NoCycle THEN throw(R0)
        ELSE LET R1 == insertWithdrawal(R0, personId, cycle.id,
                                        cycle.totalAmount, day)
                 R2 == closeCycle(R1, cycle.id, day)
                 R3 == runAsync(R2, TRUE,
                           [R2.db EXCEPT !.collections =
                               {r \in @ : r.cycleId # cycle.id}], R2.ret)
             IN  createCycle(R3, personId, day)

processWithdrawal(S, personId, day, fuel) ==
    LET R0 == Begin(S, fuel)
        cycle == getActiveCycle(S, personId)
    IN  IF cycle = NoCycle THEN throw(R0)
        ELSE LET R1 == insertWithdrawal(R0, personId, cycle.id,
                                        cycle.totalAmount, day)
                 R2 == closeCycle(R1, cycle.id, day)
             IN  createCycle(R2, personId, day)

\* processPartialWithdrawal with a plausible slip: the withdrawal is recorded,
\* the total is not reduced
processPartialWithdrawalNoDeduct(S, personId, amount, day, fuel) ==
    LET R0 == Begin(S, fuel)
        cycle == getActiveCycle(S, personId)
    IN  IF cycle = NoCycle THEN throw(R0)
        ELSE IF amount > cycle.totalAmount THEN throw(R0)
        ELSE insertWithdrawal(R0, personId, cycle.id, amount, day)

\* processPartialWithdrawal with a plausible slip: the amount is not compared
\* with the balance
processPartialWithdrawalNoCheck(S, personId, amount, day, fuel) ==
    LET R0 == Begin(S, fuel)
        cycle == getActiveCycle(S, personId)
    IN  IF cycle = NoCycle THEN throw(R0)
        ELSE LET R1 == insertWithdrawal(R0, personId, cycle.id, amount, day)
             IN  runAsync(R1, TRUE,
                     addToTotal(R1.db, cycle.id, 0 - amount), R1.ret)

processPartialWithdrawal(S, personId, amount, day, fuel) ==
    LET R0 == Begin(S, fuel)
        cycle == getActiveCycle(S, personId)
    IN  IF cycle = NoCycle THEN throw(R0)
        ELSE IF amount > cycle.totalAmount THEN throw(R0)
        ELSE LET R1 == insertWithdrawal(R0, personId, cycle.id, amount, day)
             IN  runAsync(R1, TRUE,
                     addToTotal(R1.db, cycle.id, 0 - amount), R1.ret)

\* ---- backup and restore (services/export.ts) ----

RECURSIVE collectionsByDateDesc(_)
\* ... FROM collections WHERE person_id = ? ORDER BY date DESC
collectionsByDateDesc(rows) ==
    IF rows = {} THEN <<>>
    ELSE LET r == CHOOSE x \in rows : \A o \in rows : x.date >= o.date
         IN  <<r>> \o collectionsByDateDesc(rows \ {r})

RECURSIVE withdrawalsByDateDesc(_)
\* ... FROM withdrawals WHERE person_id = ? ORDER BY date DESC
withdrawalsByDateDesc(rows) ==
    IF rows = {} THEN <<>>
    ELSE LET r == CHOOSE x \in rows : \A o \in rows : x.id >= o.id
         IN  <<r>> \o withdrawalsByDateDesc(rows \ {r})

RECURSIVE peopleInOrder(_)
\* getAllPeople: ... FROM people WHERE is_active = 1 ORDER BY name
peopleInOrder(rows) ==
    IF rows = {} THEN <<>>
    ELSE LET r == CHOOSE x \in rows : \A o \in rows : x.id <= o.id
         IN  <<r>> \o peopleInOrder(rows \ {r})

getAllPeople(S) == peopleInOrder({p \in S.people : p.isActive})

\* one element of allData.people
exportPerson(S, person) ==
    [hasName |-> TRUE,
     id |-> person.id,
     activeCycle |-> getActiveCycle(S, person.id),
     cycles |-> {c \in S.cycles : c.personId = person.id},
     withdrawals |-> withdrawalsByDateDesc(
                         {w \in S.withdrawals : w.personId = person.id}),
     collections |-> collectionsByDateDesc(
                         {r \in S.collections : r.personId = person.id})]

\* exportDatabaseAsJSON: the parsed content of the file it writes
exportDatabaseAsJSON(S) ==
    [hasPeople |-> TRUE,
     people |-> [i \in 1 .. Len(getAllPeople(S)) |->
                    exportPerson(S, getAllPeople(S)[i])]]

RECURSIVE importCollections(_, _, _, _)
\* for (const collection of personData.collections) INSERT INTO collections
importCollections(R, rows, newPersonId, newCycleId) ==
    IF rows = <<>> THEN R
    ELSE LET S == R.db
             c == Head(rows)
             row == [personId |-> newPersonId, cycleId |-> newCycleId,
                     date |-> c.date,
                     amount |-> IF c.amount = NULL THEN 0 ELSE c.amount,
                     status |-> c.status]
             R1 == runAsync(R,
                       ForeignKeysOk(S, newPersonId, newCycleId)
                           /\ RowsAt(S, newPersonId, c.date) = {},
                       [S EXCEPT !.collections = @ \cup {row}], NULL)
         IN  importCollections(R1, Tail(rows), newPersonId, newCycleId)

RECURSIVE importWithdrawals(_, _, _, _)
\* for (const withdrawal of personData.withdrawals) INSERT INTO withdrawals
importWithdrawals(R, rows, newPersonId, newCycleId) ==
    IF rows = <<>> THEN R
    ELSE LET S == R.db
             w == Head(rows)
             newId == S.seqWithdrawals + 1
             R1 == runAsync(R, ForeignKeysOk(S, newPersonId, newCycleId),
                       [S EXCEPT !.withdrawals = @ \cup
                                   {[id |-> newId, personId |-> newPersonId,
                                     cycleId |-> newCycleId,
                                     amount |-> IF w.amount = NULL THEN 0 ELSE w.amount,
                                     date |-> w.date]},
                                 !.seqWithdrawals = newId],
                       newId)
         IN  importWithdrawals(R1, Tail(rows), newPersonId, newCycleId)

\* the body of the loop over data.people
importPerson(R, personData, day) ==
    LET S == R.db
        newPersonId == S.seqPeople + 1
        \* people.name is NOT NULL
        R1 == runAsync(R, personData.hasName,
                  [S EXCEPT !.people = @ \cup
                              {[id |-> newPersonId, isActive |-> TRUE]},
                            !.seqPeople = newPersonId],
                  newPersonId)
        active == personData.activeCycle
        cycleStartDate == IF active = NoCycle THEN day ELSE active.startDate
        cycleTotal == IF active = NoCycle THEN 0 ELSE active.totalAmount
        S1 == R1.db
        newCycleId == S1.seqCycles + 1
        R2 == runAsync(R1, PersonExists(S1, newPersonId),
                  [S1 EXCEPT !.cycles = @ \cup
                               {[id |-> newCycleId, personId |-> newPersonId,
                                 startDate |-> cycleStartDate, endDate |-> NULL,
                                 totalAmount |-> cycleTotal, isActive |-> TRUE]},
                             !.seqCycles = newCycleId],
                  newCycleId)
        R3 == importCollections(R2, personData.collections,
                                newPersonId, newCycleId)
    IN  importWithdrawals(R3, personData.withdrawals, newPersonId, newCycleId)

RECURSIVE importPeople(_, _, _)
importPeople(R, list, day) ==
    IF list = <<>> THEN R
    ELSE importPeople(importPerson(R, Head(list), day), Tail(list), day)

\* importDatabaseFromJSON(jsonContent), data being JSON.parse(jsonContent)
importDatabaseFromJSON(S, data, day, fuel) ==
    LET R0 == Begin(S, fuel)
    IN  IF ~data.hasPeople THEN throw(R0)
        ELSE LET R1 == runAsync(R0, TRUE, [R0.db EXCEPT !.collections = {}], NULL)
                 R2 == runAsync(R1, TRUE, [R1.db EXCEPT !.withdrawals = {}], NULL)
                 R3 == runAsync(R2, TRUE, [R2.db EXCEPT !.cycles = {}], NULL)
                 R4 == runAsync(R3, TRUE, [R3.db EXCEPT !.people = {}], NULL)
             IN  importPeople(R4, data.people, day)

\* ---- the state machine ----

WithdrawalAmounts == 1 .. MaxAmount

\* the most storage writes of a ledger operation (processWithdrawal,
\* recordCollection with a lazily created cycle)
MaxWrites == 3

WithinBounds(S) ==
    /\ S.seqPeople <= MaxPersonId
    /\ S.seqCycles <= MaxCycleId

Outcome(R) == IF R.halted THEN "killed" ELSE IF R.err THEN "error" ELSE "ok"

\* a call of the engine that ran to its return or to its throw
Call(R, op, personId) ==
    /\ ops < MaxOps
    /\ ~R.halted
    /\ WithinBounds(R.db)
    /\ db' = R.db
    /\ last' = [op |-> op, person |-> personId, outcome |-> Outcome(R)]
    /\ ops' = ops + 1
    /\ UNCHANGED <<today, crashed, scenario, inflight>>

\* a call during which the process was killed before one of its writes
Killed(R, op, personId) ==
    /\ ops < MaxOps
    /\ R.halted
    /\ WithinBounds(R.db)
    /\ db' = R.db
    /\ last' = [op |-> op, person |-> personId, outcome |-> Outcome(R)]
    /\ ops' = ops + 1
    /\ crashed' = TRUE
    /\ UNCHANGED <<today, scenario, inflight>>

\* backups that lack the required shape: no people array; an entry with no name
MalformedBackups ==
    {[hasPeople |-> FALSE, people |-> <<>>],
     [hasPeople |-> TRUE,
      people |-> <<[hasName |-> FALSE, id |-> NULL, activeCycle |-> NoCycle,
                    cycles |-> {}, withdrawals |-> <<>>, collections |-> <<>>]>>]}

\* the calls that can be in flight together (a double tap)
CallIds == 1 .. 2

\* a call that has not started
NoCall ==
    [op |-> "none", pc |-> "idle", personId |-> NULL, amount |-> NULL,
     cycleId |-> NULL, totalAmount |-> NULL, existingAmount |-> NULL,
     outcome |-> "none"]

\* no call is in flight
NoCalls == [calls |-> [i \in CallIds |-> NoCall], before |-> EmptyDb]

\* no scenario is being played
NoScenario == [defaultAmount |-> 0, customAmount |-> 0, partialAmount |-> 0]

Init ==
    /\ db = EmptyDb
    /\ today = 1
    /\ last = [op |-> "none", person |-> NULL, outcome |-> "ok"]
    /\ ops = 0
    /\ crashed = FALSE
    /\ scenario = NoScenario
    /\ inflight = NoCalls

AddPerson ==
    Call(addPerson(db, TRUE, today, Unlimited), "addPerson", db.seqPeople + 1)

DeletePerson ==
    \E p \in PersonIds :
        Call(deletePerson(db, p, Unlimited), "deletePerson", p)

RecordCollection ==
    \E p \in PersonIds, a \in Amounts :
        Call(recordCollection(db, p, a, today, Unlimited), "recordCollection", p)

SkipCollection ==
    \E p \in PersonIds :
        Call(skipCollection(db, p, today, Unlimited), "skipCollection", p)

UndoCollection ==
    \E p \in PersonIds :
        Call(undoCollection(db, p, today, Unlimited), "undoCollection", p)

ProcessWithdrawal ==
    \E p \in PersonIds :
        Call(processWithdrawal(db, p, today, Unlimited), "processWithdrawal", p)

ProcessPartialWithdrawal ==
    \E p \in PersonIds, a \in WithdrawalAmounts :
        Call(processPartialWithdrawal(db, p, a, today, Unlimited),
             "processPartialWithdrawal", p)

\* the adjust screen takes any total >= 0 and any start date; the start dates
\* tried are today's date and none
UpdateCycleData ==
    \E c \in CycleIds, t \in Amounts \cup {NULL}, s \in {today, NULL} :
        Call(updateCycleData(db, c, t, s, Unlimited), "updateCycleData", c)

Restore ==
    \E data \in {exportDatabaseAsJSON(db)} \cup MalformedBackups :
        Call(importDatabaseFromJSON(db, data, today, Unlimited),
             "importDatabaseFromJSON", NULL)

AdvanceDay ==
    /\ today < MaxDay
    /\ ops < MaxOps
    /\ today' = today + 1
    /\ ops' = ops + 1
    /\ UNCHANGED <<db, last, crashed, scenario, inflight>>

Next ==
    \/ AddPerson
    \/ DeletePerson
    \/ RecordCollection
    \/ SkipCollection
    \/ UndoCollection
    \/ ProcessWithdrawal
    \/ ProcessPartialWithdrawal
    \/ UpdateCycleData
    \/ Restore
    \/ AdvanceDay

Spec == Init /\ [][Next]_vars

\* ---- interruption: the process is killed during a call ----

\* the writes a killed call completes: at least one (a call killed before its
\* first write leaves no trace) and not all of them
KillPoints == 1 .. MaxWrites - 1

KilledAddPerson ==
    \E fuel \in KillPoints :
        Killed(addPerson(db, TRUE, today, fuel), "addPerson", db.seqPeople + 1)

KilledRecordCollection ==
    \E fuel \in KillPoints, p \in PersonIds, a \in Amounts :
        Killed(recordCollection(db, p, a, today, fuel), "recordCollection", p)

KilledSkipCollection ==
    \E fuel \in KillPoints, p \in PersonIds :
        Killed(skipCollection(db, p, today, fuel), "skipCollection", p)

KilledUndoCollection ==
    \E fuel \in KillPoints, p \in PersonIds :
        Killed(undoCollection(db, p, today, fuel), "undoCollection", p)

KilledProcessWithdrawal ==
    \E fuel \in KillPoints, p \in PersonIds :
        Killed(processWithdrawal(db, p, today, fuel), "processWithdrawal", p)

KilledProcessPartialWithdrawal ==
    \E fuel \in KillPoints, p \in PersonIds, a \in WithdrawalAmounts :
        Killed(processPartialWithdrawal(db, p, a, today, fuel),
               "processPartialWithdrawal", p)

\* the ledger operations, each either completed or interrupted
NextCrash ==
    \/ AddPerson
    \/ RecordCollection
    \/ SkipCollection
    \/ UndoCollection
    \/ ProcessWithdrawal
    \/ ProcessPartialWithdrawal
    \/ AdvanceDay
    \/ KilledAddPerson
    \/ KilledRecordCollection
    \/ KilledSkipCollection
    \/ KilledUndoCollection
    \/ KilledProcessWithdrawal
    \/ KilledProcessPartialWithdrawal

SpecCrash == Init /\ [][NextCrash]_vars

\* ---- properties ----

\* the call ran to its return: it neither threw nor was killed
Completed(R) == ~R.err /\ ~R.halted

PeopleWithCycles == {c.personId : c \in db.cycles}

\* C1: after every step of any sequence of completed ledger operations every
\* cycle's totalAmount is >= 0
C1_NoNegativeBalance ==
    \A c \in db.cycles : c.totalAmount >= 0

\* C2: after any sequence of completed operations each person has at most one
\* cycle with isActive = true
C2_AtMostOneActiveCycle ==
    \A p \in PeopleWithCycles : Cardinality(ActiveCycles(db, p)) <= 1

\* a full withdrawal has just closed a cycle of a person and opened the next
C2_Witness ==
    /\ last.op = "processWithdrawal" /\ last.outcome = "ok"
    /\ \E c \in db.cycles : c.personId = last.person /\ ~c.isActive
    /\ Cardinality(ActiveCycles(db, last.person)) = 1

ExactlyOneActive(S, personId) == Cardinality(ActiveCycles(S, personId)) = 1

CollectedRow(personId, cycleId, day, amount) ==
    [personId |-> personId, cycleId |-> cycleId, date |-> day,
     amount |-> amount, status |-> "collected"]

SkippedRow(personId, cycleId, day) ==
    [personId |-> personId, cycleId |-> cycleId, date |-> day,
     amount |-> NULL, status |-> "skipped"]

\* a call on a person without an active cycle made a new active cycle and
\* attached the day's row to it
LazilyCreated(S, R, personId, row) ==
    /\ Completed(R)
    /\ ExactlyOneActive(R.db, personId)
    /\ getActiveCycle(R.db, personId) \notin S.cycles
    /\ ~CycleExists(S, getActiveCycle(R.db, personId).id)
    /\ RowsAt(R.db, personId, today) =
           {[row EXCEPT !.cycleId = getActiveCycle(R.db, personId).id]}

\* C3: between operations every person has exactly one active cycle:
\* addPerson leaves the new person with exactly one active cycle of total 0, a
\* completed processWithdrawal leaves exactly one active cycle of total 0, and
\* recordCollection or skipCollection for a person without an active cycle
\* first creates one and attaches the new row to it
C3_ExactlyOneCurrentCycle ==
    /\ ~crashed => \A q \in db.people : ExactlyOneActive(db, q.id)
    /\ LET R == addPerson(db, TRUE, today, Unlimited)
           new == db.seqPeople + 1
       IN  /\ Completed(R)
           /\ PersonExists(R.db, new) /\ ~PersonExists(db, new)
           /\ ExactlyOneActive(R.db, new)
           /\ getActiveCycle(R.db, new).totalAmount = 0
    /\ \A p \in PersonIds :
         LET R == processWithdrawal(db, p, today, Unlimited)
         IN  Completed(R) =>
                /\ ExactlyOneActive(R.db, p)
                /\ getActiveCycle(R.db, p).totalAmount = 0
    /\ \A p \in PersonIds :
         PersonExists(db, p) /\ ActiveCycles(db, p) = {} =>
            /\ \A a \in Amounts :
                 LazilyCreated(db, recordCollection(db, p, a, today, Unlimited),
                               p, CollectedRow(p, NULL, today, a))
            /\ LazilyCreated(db, skipCollection(db, p, today, Unlimited),
                             p, SkippedRow(p, NULL, today))

\* a person lost the active cycle to a process killed during a full
\* withdrawal, and a collection recorded now makes a new cycle for the row
C3_Witness ==
    /\ last.op = "processWithdrawal" /\ last.outcome = "killed"
    /\ PersonExists(db, last.person)
    /\ ActiveCycles(db, last.person) = {}
    /\ LazilyCreated(db, recordCollection(db, last.person, MaxAmount, today, Unlimited),
                     last.person, CollectedRow(last.person, NULL, today, MaxAmount))

\* the result of recordCollection(p, a) then recordCollection(p, b) today
RecordTwice(p, a, b) ==
    LET first == recordCollection(db, p, a, today, Unlimited)
        S1 == first.db
    IN  recordCollection(S1, p, b, today, Unlimited)

\* C4: recordCollection(p, a) immediately followed by recordCollection(p, b)
\* on the same date leaves exactly one row for (p, date), collected with
\* amount b, and the active cycle's total is its value before the first call
\* plus b minus the collected amount stored for the date before the first call
C4_IdempotentReCollection ==
    \A p \in PersonIds, a \in Amounts, b \in Amounts :
        PersonExists(db, p) =>
            LET e == collectedAmount(getTodayCollection(db, p, today))
                before == getActiveCycle(db, p).totalAmount
                R1 == recordCollection(db, p, a, today, Unlimited)
                R2 == RecordTwice(p, a, b)
                after == getActiveCycle(R2.db, p)
            IN  /\ Completed(R1) /\ Completed(R2)
                /\ RowsAt(R2.db, p, today) = {CollectedRow(p, after.id, today, b)}
                /\ after.totalAmount = before + b - e

\* a collection of a non-zero amount was just recorded, and recording another
\* amount for the same day moves the total by the difference only
C4_Witness ==
    /\ last.op = "recordCollection" /\ last.outcome = "ok"
    /\ \E b \in Amounts :
         LET row == getTodayCollection(db, last.person, today)
             R == recordCollection(db, last.person, b, today, Unlimited)
         IN  /\ row.status = "collected" /\ row.amount > 0 /\ b # row.amount
             /\ b > 0
             /\ Completed(R)
             /\ getActiveCycle(R.db, last.person).totalAmount =
                    getActiveCycle(db, last.person).totalAmount + b - row.amount

\* the result of recordCollection(p, a) then undoCollection(p) today
RecordThenUndo(p, a) ==
    LET first == recordCollection(db, p, a, today, Unlimited)
        S1 == first.db
    IN  undoCollection(S1, p, today, Unlimited)

\* C5 as claimed: recordCollection(p, a) immediately followed by
\* undoCollection(p) on the same date restores the active cycle's total to its
\* value before the recordCollection call and leaves no row for (p, date)
C5_UndoRestoresTotal ==
    \A p \in PersonIds, a \in Amounts :
        PersonExists(db, p) /\ ActiveCycles(db, p) # {} =>
            LET R == RecordThenUndo(p, a)
            IN  /\ Completed(R)
                /\ RowsAt(R.db, p, today) = {}
                /\ getActiveCycle(R.db, p).totalAmount =
                       getActiveCycle(db, p).totalAmount

\* C5 as amended: recordCollection(p, a) immediately followed by
\* undoCollection(p) on the same date leaves no row for (p, date) and leaves
\* the active cycle's total at its value before the recordCollection call
\* minus the collected amount already stored for the date before that call
C5_UndoRemovesTheDay ==
    \A p \in PersonIds, a \in Amounts :
        PersonExists(db, p) /\ ActiveCycles(db, p) # {} =>
            LET e == collectedAmount(getTodayCollection(db, p, today))
                R == RecordThenUndo(p, a)
            IN  /\ Completed(R)
                /\ RowsAt(R.db, p, today) = {}
                /\ getActiveCycle(R.db, p).id = getActiveCycle(db, p).id
                /\ getActiveCycle(R.db, p).totalAmount =
                       getActiveCycle(db, p).totalAmount - e

\* a collection was just recorded for the day; recording again and undoing
\* removes the day's row and the amount that was stored, not only the second
C5_Witness ==
    /\ last.op = "recordCollection" /\ last.outcome = "ok"
    /\ collectedAmount(getTodayCollection(db, last.person, today)) > 0
    /\ \E a \in Amounts :
         LET R == RecordThenUndo(last.person, a)
         IN  /\ Completed(R)
             /\ RowsAt(R.db, last.person, today) = {}
             /\ getActiveCycle(R.db, last.person).totalAmount <
                    getActiveCycle(db, last.person).totalAmount

CycleIdsOf(S) == {c.id : c \in S.cycles}

CollectionsOf(S, cycleId) == {r \in S.collections : r.cycleId = cycleId}

\* the withdrawals the call added are exactly one, of this cycle and amount
AddsOneWithdrawal(S, R, personId, cycleId, amount) ==
    /\ S.withdrawals \subseteq R.db.withdrawals
    /\ \E w \in R.db.withdrawals :
         /\ R.db.withdrawals \ S.withdrawals = {w}
         /\ w.personId = personId /\ w.cycleId = cycleId /\ w.amount = amount

\* C6: with an active cycle c of total T, a completed processWithdrawal(p)
\* adds exactly one Withdrawal of amount T referencing c, sets c inactive with
\* endDate today, creates a new active cycle of total 0 starting today, and
\* every Collection row that referenced c still references c
C6_FullWithdrawal ==
    \A p \in PersonIds :
        ActiveCycles(db, p) # {} =>
            LET c == getActiveCycle(db, p)
                R == processWithdrawal(db, p, today, Unlimited)
                new == getActiveCycle(R.db, p)
            IN  /\ Completed(R)
                /\ AddsOneWithdrawal(db, R, p, c.id, c.totalAmount)
                /\ [c EXCEPT !.isActive = FALSE, !.endDate = today] \in R.db.cycles
                /\ c \notin R.db.cycles
                /\ ActiveCycles(R.db, p) = {new}
                /\ new.id \notin CycleIdsOf(db)
                /\ new.totalAmount = 0 /\ new.startDate = today
                /\ R.db.cycles = (db.cycles \ {c}) \cup
                       {[c EXCEPT !.isActive = FALSE, !.endDate = today], new}
                /\ CollectionsOf(R.db, c.id) = CollectionsOf(db, c.id)
                /\ R.db.collections = db.collections

\* a full withdrawal has just paid out a balance above 0: the closed cycle
\* keeps its collected row and carries the withdrawal, the new cycle is empty
C6_Witness ==
    /\ last.op = "processWithdrawal" /\ last.outcome = "ok"
    /\ \E c \in db.cycles, w \in db.withdrawals :
         /\ c.personId = last.person /\ ~c.isActive /\ c.endDate = today
         /\ c.totalAmount > 0
         /\ w.cycleId = c.id /\ w.amount = c.totalAmount
         /\ CollectionsOf(db, c.id) # {}
    /\ getActiveCycle(db, last.person).totalAmount = 0
    /\ getActiveCycle(db, last.person).startDate = today

\* C7: with an active cycle c of total T and 0 < amount <= T,
\* processPartialWithdrawal(p, amount) adds exactly one Withdrawal of that
\* amount referencing c, sets c's total to T - amount, leaves c active and
\* creates no cycle; a following recordCollection(p, a) on a date with no
\* collected row raises the total of the same cycle c to T - amount + a
C7_PartialWithdrawal ==
    \A p \in PersonIds, amount \in WithdrawalAmounts :
        LET c == getActiveCycle(db, p)
            R == processPartialWithdrawal(db, p, amount, today, Unlimited)
            left == [c EXCEPT !.totalAmount = c.totalAmount - amount]
        IN  ActiveCycles(db, p) # {} /\ amount <= c.totalAmount =>
                /\ Completed(R)
                /\ AddsOneWithdrawal(db, R, p, c.id, amount)
                /\ R.db.cycles = (db.cycles \ {c}) \cup {left}
                /\ left.isActive /\ getActiveCycle(R.db, p) = left
                /\ R.db.collections = db.collections
                /\ \A a \in Amounts :
                     getTodayCollection(R.db, p, today).status # "collected" =>
                        LET S1 == R.db
                            R2 == recordCollection(S1, p, a, today, Unlimited)
                        IN  /\ Completed(R2)
                            /\ R2.db.cycles = (db.cycles \ {c}) \cup
                                   {[c EXCEPT !.totalAmount =
                                          c.totalAmount - amount + a]}

\* a partial withdrawal has just left a balance above 0 in the cycle, which
\* is still the active one and is the cycle the withdrawal refers to
C7_Witness ==
    /\ last.op = "processPartialWithdrawal" /\ last.outcome = "ok"
    /\ \E w \in db.withdrawals :
         /\ w.personId = last.person
         /\ w.cycleId = getActiveCycle(db, last.person).id
         /\ w.amount > 0
    /\ getActiveCycle(db, last.person).totalAmount > 0
    /\ Cardinality({c \in db.cycles : c.personId = last.person}) = 1

\* the amounts asked of a partial withdrawal, above every balance included
OverdrawAmounts == 1 .. MaxAmount * MaxDay + 1

\* C8: processPartialWithdrawal(p, amount) with amount above the active
\* cycle's total fails with an error, inserts no Withdrawal and leaves the
\* cycle's total and isActive unchanged
C8_OverWithdrawalRejected ==
    \A p \in PersonIds, amount \in OverdrawAmounts :
        LET c == getActiveCycle(db, p)
            R == processPartialWithdrawal(db, p, amount, today, Unlimited)
        IN  ActiveCycles(db, p) # {} /\ amount > c.totalAmount =>
                /\ R.err
                /\ R.db.withdrawals = db.withdrawals
                /\ R.db.cycles = db.cycles
                /\ R.db = db

\* a partial withdrawal above the balance of a person's active cycle has just
\* been refused
C8_Witness ==
    /\ last.op = "processPartialWithdrawal" /\ last.outcome = "error"
    /\ ActiveCycles(db, last.person) # {}
    /\ getActiveCycle(db, last.person).totalAmount > 0
    /\ getActiveCycle(db, last.person).totalAmount < MaxAmount
    /\ db.withdrawals = {}

\* this step is a call of op during which the process was killed
KilledStep(op) ==
    /\ ops' = ops + 1 /\ today' = today
    /\ last'.op = op /\ last'.outcome = "killed"

\* C9: when processWithdrawal is interrupted after any of its three writes,
\* the persisted state does not show the person with zero active cycles and
\* does not show a full-balance Withdrawal recorded against a cycle that is
\* still active with its total unchanged
C9_WithdrawalAtomic ==
    [][KilledStep("processWithdrawal") =>
          /\ ActiveCycles(db, last'.person) # {} =>
                ActiveCycles(db', last'.person) # {}
          /\ \A w \in db'.withdrawals \ db.withdrawals :
                ~\E c \in db'.cycles :
                    /\ c.id = w.cycleId /\ c.isActive
                    /\ c.totalAmount = w.amount]_vars

\* C10: when recordCollection or undoCollection is interrupted between its
\* Collection-row write and its cycle-total write, the persisted state holds
\* no collected row whose amount is not reflected in the cycle total and no
\* total that still includes the amount of a deleted row
C10_CollectionAtomic ==
    [][/\ KilledStep("recordCollection") =>
          LET p == last'.person
              old == getTodayCollection(db, p, today)
              new == getTodayCollection(db', p, today)
          IN  new # old =>
                 getActiveCycle(db', p).totalAmount =
                     getActiveCycle(db, p).totalAmount
                         + collectedAmount(new) - collectedAmount(old)
       /\ KilledStep("undoCollection") =>
          LET p == last'.person
              old == getTodayCollection(db, p, today)
          IN  RowsAt(db, p, today) # {} /\ RowsAt(db', p, today) = {}
                 /\ ActiveCycles(db, p) # {} =>
                 getActiveCycle(db', p).totalAmount =
                     getActiveCycle(db, p).totalAmount - collectedAmount(old)]_vars

\* the operations of the ledger on collections and withdrawals
LedgerOps ==
    {"recordCollection", "skipCollection", "undoCollection",
     "processWithdrawal", "processPartialWithdrawal"}

\* this step is an engine call of one of the operations in opset
CallStep(opset) ==
    /\ ops' = ops + 1 /\ today' = today
    /\ last'.op \in opset

ClosedCycles(S) == {c \in S.cycles : ~c.isActive}

\* C11: once a cycle has been closed by processWithdrawal, every Collection
\* row attached to it remains stored with the same amount, status and cycleId
\* after any later recordCollection, skipCollection, undoCollection,
\* processWithdrawal or processPartialWithdrawal, calls on the day of the
\* withdrawal included
C11_HistoryPreserved ==
    [][CallStep(LedgerOps) =>
          \A c \in ClosedCycles(db) :
              CollectionsOf(db, c.id) \subseteq db'.collections]_vars

\* the engine calls that are not a restore from a backup
EngineOps == LedgerOps \cup {"addPerson", "deletePerson", "updateCycleData"}

\* C12: a cycle with isActive = false never becomes active again, no ledger
\* operation deletes it, and every Collection row written by recordCollection
\* or skipCollection references the cycle that is active at the time of the
\* write, never a closed one
C12_ClosedCyclesTerminal ==
    [][/\ \A c \in ClosedCycles(db) :
             ~\E d \in db'.cycles : d.id = c.id /\ d.isActive
       /\ CallStep(EngineOps) =>
             \A c \in ClosedCycles(db) :
                 \E d \in ClosedCycles(db') : d.id = c.id
       /\ CallStep({"recordCollection", "skipCollection"})
             /\ last'.outcome = "ok" =>
             LET p == last'.person
             IN  /\ RowsAt(db', p, today) # {}
                 /\ \A r \in RowsAt(db', p, today) :
                        /\ \E d \in ActiveCycles(db', p) : d.id = r.cycleId
                        /\ r.cycleId \notin {c.id : c \in ClosedCycles(db)}
                        /\ \A d \in ActiveCycles(db, p) : d.id = r.cycleId]_vars

\* a collection was just written for a person who has a closed cycle, and the
\* day's row references the person's active cycle
C12_Witness ==
    /\ last.op \in {"recordCollection", "skipCollection"} /\ last.outcome = "ok"
    /\ \E c \in ClosedCycles(db) : c.personId = last.person
    /\ \E r \in RowsAt(db, last.person, today), d \in ActiveCycles(db, last.person) :
           r.cycleId = d.id

CycleOf(S, cycleId) == CHOOSE c \in S.cycles : c.id = cycleId

\* withdrawal w of store S is still in store T after a restore, which numbers
\* the rows anew: a record of the same amount and date whose source cycle is
\* the same cycle but for its id and its person's id
KeptByRestore(S, T, w) ==
    \E v \in T.withdrawals :
        /\ v.amount = w.amount /\ v.date = w.date
        /\ CycleExists(T, v.cycleId)
        /\ LET c == CycleOf(S, w.cycleId)
               d == CycleOf(T, v.cycleId)
           IN  /\ d.personId = v.personId
               /\ d.startDate = c.startDate /\ d.endDate = c.endDate
               /\ d.isActive = c.isActive /\ d.totalAmount = c.totalAmount

\* C13: once a Withdrawal record exists no later operation (recordCollection,
\* skipCollection, undoCollection, processWithdrawal, processPartialWithdrawal,
\* updateCycleData, deletePerson, restore from a backup) changes its person,
\* source cycle or amount, or removes it
C13_WithdrawalsAppendOnly ==
    [][/\ CallStep(EngineOps) => db.withdrawals \subseteq db'.withdrawals
       /\ CallStep({"importDatabaseFromJSON"}) =>
             \A w \in db.withdrawals : KeptByRestore(db, db', w)]_vars

\* C13 for the engine operations alone: none of them changes or removes a
\* Withdrawal record
C13_EngineKeepsWithdrawals ==
    [][CallStep(EngineOps) => db.withdrawals \subseteq db'.withdrawals]_vars

RowsElsewhere(S, personId, day) == S.collections \ RowsAt(S, personId, day)

\* C14: in every reachable state there is at most one Collection row per
\* (person, date); recordCollection and skipCollection on a date that already
\* has a row replace that row, whatever its status or cycle, and add no second
C14_OneRowPerPersonAndDate ==
    /\ \A r \in db.collections, o \in db.collections :
           r.personId = o.personId /\ r.date = o.date => r = o
    /\ \A p \in PersonIds :
         RowsAt(db, p, today) # {} =>
            /\ \A a \in Amounts :
                 LET R == recordCollection(db, p, a, today, Unlimited)
                 IN  /\ Completed(R)
                     /\ \E c \in ActiveCycles(R.db, p) :
                            RowsAt(R.db, p, today) = {CollectedRow(p, c.id, today, a)}
                     /\ RowsElsewhere(R.db, p, today) = RowsElsewhere(db, p, today)
            /\ LET R == skipCollection(db, p, today, Unlimited)
               IN  /\ Completed(R)
                   /\ \E c \in ActiveCycles(R.db, p) :
                          RowsAt(R.db, p, today) = {SkippedRow(p, c.id, today)}
                   /\ RowsElsewhere(R.db, p, today) = RowsElsewhere(db, p, today)

\* a day was just skipped, another day holds a row too, and a collection
\* recorded now replaces the skipped row
C14_Witness ==
    /\ last.op = "skipCollection" /\ last.outcome = "ok"
    /\ RowsAt(db, last.person, today) # {}
    /\ RowsElsewhere(db, last.person, today) # {}
    /\ LET R == recordCollection(db, last.person, MaxAmount, today, Unlimited)
       IN  /\ Completed(R)
           /\ Cardinality(RowsAt(R.db, last.person, today)) = 1
           /\ getTodayCollection(R.db, last.person, today).status = "collected"

\* the sum of the collected amounts of the rows of a cycle
CollectedSum(S, cycleId) ==
    sumOfAmounts({r \in CollectionsOf(S, cycleId) : r.status = "collected"})

\* the store after updateCycleData has set the total of p's active cycle to M
AdjustedTo(p, M) ==
    LET c == getActiveCycle(db, p)
        U == updateCycleData(db, c.id, M, NULL, Unlimited)
    IN  U.db

\* C15: after updateCycleData has set the active cycle's totalAmount to M, a
\* following recordCollection(p, a) sets the total to M + a - e, e being the
\* collected amount already stored for the date, and a following
\* undoCollection(p) sets it to M - e; neither recomputes the total as the sum
\* of the cycle's rows
C15_DeltaKeepsAdjustment ==
    \A p \in PersonIds, M \in Amounts :
        ActiveCycles(db, p) # {} =>
            LET c == getActiveCycle(db, p)
                e == collectedAmount(getTodayCollection(db, p, today))
                S1 == AdjustedTo(p, M)
                U == undoCollection(S1, p, today, Unlimited)
            IN  /\ getActiveCycle(S1, p) = [c EXCEPT !.totalAmount = M]
                /\ Completed(U)
                /\ getActiveCycle(U.db, p) = [c EXCEPT !.totalAmount = M - e]
                /\ \A a \in Amounts :
                     LET R == recordCollection(S1, p, a, today, Unlimited)
                     IN  /\ Completed(R)
                         /\ getActiveCycle(R.db, p) =
                                [c EXCEPT !.totalAmount = M + a - e]

\* the total of a cycle was just set by hand to a value that is not the sum of
\* its rows, the day holds a collected amount, and recording another amount
\* moves the total by the difference, away from the sum of the rows
C15_Witness ==
    /\ last.op = "updateCycleData" /\ last.outcome = "ok"
    /\ \E p \in PersonIds, a \in Amounts :
         LET c == getActiveCycle(db, p)
             e == collectedAmount(getTodayCollection(db, p, today))
             R == recordCollection(db, p, a, today, Unlimited)
         IN  /\ ActiveCycles(db, p) # {} /\ c.id = last.person
             /\ c.totalAmount # CollectedSum(db, c.id)
             /\ e > 0 /\ a # e
             /\ getActiveCycle(R.db, p).totalAmount = c.totalAmount + a - e
             /\ getActiveCycle(R.db, p).totalAmount # CollectedSum(R.db, c.id)

\* C16: skipCollection(p) replaces the row for (p, today) with a skipped row
\* of null amount and leaves the totalAmount of every existing cycle
\* unchanged, also when the date held a collected amount; a later
\* undoCollection(p) on that date deletes the skipped row and leaves every
\* total unchanged, so the earlier collected amount stays in the cycle total
C16_SkipLeavesTotals ==
    \A p \in PersonIds :
        PersonExists(db, p) =>
            LET R == skipCollection(db, p, today, Unlimited)
                S1 == R.db
                U == undoCollection(S1, p, today, Unlimited)
            IN  /\ Completed(R)
                /\ \E c \in ActiveCycles(S1, p) :
                       RowsAt(S1, p, today) = {SkippedRow(p, c.id, today)}
                /\ db.cycles \subseteq S1.cycles
                /\ \A c \in S1.cycles \ db.cycles :
                       ~CycleExists(db, c.id) /\ c.totalAmount = 0
                /\ Completed(U)
                /\ RowsAt(U.db, p, today) = {}
                /\ U.db.cycles = S1.cycles
                /\ RowsElsewhere(U.db, p, today) = RowsElsewhere(db, p, today)

\* a collected amount was just recorded for the day; skipping the day now
\* replaces the row and keeps the amount in the total, and undoing the day
\* after that removes the skipped row and still keeps it
C16_Witness ==
    /\ last.op = "recordCollection" /\ last.outcome = "ok"
    /\ collectedAmount(getTodayCollection(db, last.person, today)) > 0
    /\ LET p == last.person
           R == skipCollection(db, p, today, Unlimited)
           S1 == R.db
           U == undoCollection(S1, p, today, Unlimited)
       IN  /\ Completed(R) /\ Completed(U)
           /\ getTodayCollection(S1, p, today).status = "skipped"
           /\ RowsAt(U.db, p, today) = {}
           /\ getActiveCycle(U.db, p).totalAmount =
                  getActiveCycle(db, p).totalAmount
           /\ getActiveCycle(U.db, p).totalAmount > CollectedSum(U.db, getActiveCycle(db, p).id)

\* C17: undoCollection(p) on a date with no row, a skipped row or a collected
\* row of amount 0 changes no cycle's totalAmount, its only effect being that
\* no row exists for (p, date) afterwards; when the row is collected with
\* amount a > 0 it subtracts exactly a from the person's active cycle and
\* deletes the row
C17_UndoFrame ==
    \A p \in PersonIds :
        LET row == getTodayCollection(db, p, today)
            c == getActiveCycle(db, p)
            U == undoCollection(db, p, today, Unlimited)
            removed == [db EXCEPT !.collections = RowsElsewhere(db, p, today)]
        IN  /\ Completed(U)
            /\ row = NoRow \/ row.status = "skipped" \/ row.amount = 0 =>
                   U.db = removed
            /\ row.status = "collected" /\ row.amount > 0
                   /\ ActiveCycles(db, p) # {} =>
                   U.db = [removed EXCEPT !.cycles = (@ \ {c}) \cup
                              {[c EXCEPT !.totalAmount = @ - row.amount]}]

\* a full withdrawal was just made on a day that holds a collected amount:
\* undoing the day deletes the row of the closed cycle and takes the amount
\* off the new active cycle
C17_Witness ==
    /\ last.op = "processWithdrawal" /\ last.outcome = "ok"
    /\ LET p == last.person
           row == getTodayCollection(db, p, today)
           U == undoCollection(db, p, today, Unlimited)
       IN  /\ row.status = "collected" /\ row.amount > 0
           /\ row.cycleId # getActiveCycle(db, p).id
           /\ Completed(U) /\ RowsAt(U.db, p, today) = {}
           /\ getActiveCycle(U.db, p).totalAmount =
                  getActiveCycle(db, p).totalAmount - row.amount

\* C18: processWithdrawal(p) and processPartialWithdrawal(p, amount) called
\* when person p has no active cycle fail with an error and change nothing:
\* no Withdrawal is inserted, no cycle is created, closed or modified
C18_NoActiveCycleRejected ==
    \A p \in PersonIds :
        ActiveCycles(db, p) = {} =>
            /\ LET R == processWithdrawal(db, p, today, Unlimited)
               IN  R.err /\ ~R.halted /\ R.db = db
            /\ \A amount \in WithdrawalAmounts :
                 LET R == processPartialWithdrawal(db, p, amount, today, Unlimited)
                 IN  R.err /\ ~R.halted /\ R.db = db

\* a person whose cycle was closed by a full withdrawal that was killed before
\* it made the next cycle has just been refused a withdrawal
C18_Witness ==
    /\ last.op \in {"processWithdrawal", "processPartialWithdrawal"}
    /\ last.outcome = "error"
    /\ crashed
    /\ PersonExists(db, last.person)
    /\ ActiveCycles(db, last.person) = {}
    /\ \E c \in ClosedCycles(db) : c.personId = last.person

\* the call signalled an error to its caller and left the store as it was
Rejected(R) == R.err /\ ~R.halted /\ R.db = db

\* C19: every engine operation invoked with a person or cycle that does not
\* exist (recordCollection, skipCollection, undoCollection, processWithdrawal,
\* processPartialWithdrawal with an unknown personId; updateCycleData with an
\* unknown cycleId) signals an error instead of reporting success, and leaves
\* the store unchanged
C19_UnknownIdRejected ==
    /\ \A p \in PersonIds :
         ~PersonExists(db, p) =>
            /\ \A a \in Amounts :
                 Rejected(recordCollection(db, p, a, today, Unlimited))
            /\ Rejected(skipCollection(db, p, today, Unlimited))
            /\ Rejected(undoCollection(db, p, today, Unlimited))
            /\ Rejected(processWithdrawal(db, p, today, Unlimited))
            /\ \A a \in WithdrawalAmounts :
                 Rejected(processPartialWithdrawal(db, p, a, today, Unlimited))
    /\ \A c \in CycleIds :
         ~CycleExists(db, c) =>
            \A t \in Amounts, s \in {today, NULL} :
                Rejected(updateCycleData(db, c, t, s, Unlimited))

\* C19 for the operations that do reject an unknown person
C19_UnknownPersonRejectedByFour ==
    \A p \in PersonIds :
        ~PersonExists(db, p) =>
            /\ \A a \in Amounts :
                 Rejected(recordCollection(db, p, a, today, Unlimited))
            /\ Rejected(skipCollection(db, p, today, Unlimited))
            /\ Rejected(processWithdrawal(db, p, today, Unlimited))
            /\ \A a \in WithdrawalAmounts :
                 Rejected(processPartialWithdrawal(db, p, a, today, Unlimited))

\* C19 as the code has it for the other two: undoCollection with an unknown
\* personId and updateCycleData with an unknown cycleId return without an
\* error, the store unchanged
C19_UnknownIdSilentlyAccepted ==
    /\ \A p \in PersonIds :
         ~PersonExists(db, p) =>
            LET R == undoCollection(db, p, today, Unlimited)
            IN  Completed(R) /\ R.db = db
    /\ \A c \in CycleIds :
         ~CycleExists(db, c) =>
            \A t \in Amounts, s \in {today, NULL} :
                LET R == updateCycleData(db, c, t, s, Unlimited)
                IN  Completed(R) /\ R.db = db

\* the storage writes a restore may have completed when one of them fails
RestoreFailurePoints == 0 .. 5

\* C20: importDatabaseFromJSON either completes, or fails and the people,
\* cycles, collections and withdrawals present before the call are all still
\* present and unchanged, both when the backup lacks the required shape (no
\* people array, a person entry without required fields) and when a storage
\* write fails partway
C20_RestoreAllOrNothing ==
    /\ \A data \in {exportDatabaseAsJSON(db)} \cup MalformedBackups :
         LET R == importDatabaseFromJSON(db, data, today, Unlimited)
         IN  ~Completed(R) => R.db = db
    /\ \A fuel \in RestoreFailurePoints :
         LET R == importDatabaseFromJSON(db, exportDatabaseAsJSON(db), today, fuel)
         IN  ~Completed(R) => R.db = db

\* C20 for a backup without a people array: the restore throws before its
\* first write
C20_NoPeopleArrayRejected ==
    LET R == importDatabaseFromJSON(db, [hasPeople |-> FALSE, people |-> <<>>],
                                   today, Unlimited)
    IN  R.err /\ R.db = db

\* the values f takes over set, each with the number of elements that take it
Counted(f(_), set) ==
    {[value |-> f(x), count |-> Cardinality({y \in set : f(y) = f(x)})] : x \in set}

\* a cycle of store S without its identifiers: its fields, its Collection
\* rows and the Withdrawals recorded against it
CycleShape(S, c) ==
    LET rowOf(r) == [date |-> r.date, amount |-> r.amount, status |-> r.status]
        paidOf(w) == [amount |-> w.amount]
    IN  [totalAmount |-> c.totalAmount, startDate |-> c.startDate,
         endDate |-> c.endDate, isActive |-> c.isActive,
         collections |-> {rowOf(r) : r \in CollectionsOf(S, c.id)},
         withdrawals |-> Counted(paidOf, {w \in S.withdrawals : w.cycleId = c.id})]

\* store S up to renaming of identifiers
StoreShape(S) ==
    LET cycleOf(c) == CycleShape(S, c)
        personOf(p) ==
            [isActive |-> p.isActive,
             cycles |-> Counted(cycleOf, {c \in S.cycles : c.personId = p.id})]
    IN  Counted(personOf, S.people)

\* C21: exportDatabaseAsJSON followed by importDatabaseFromJSON of its output
\* yields a store equal to the original up to renaming of identifiers: the
\* same people, the same cycles per person with the same totalAmount,
\* startDate, endDate and isActive, every Collection row with the same date,
\* amount and status on the corresponding cycle, and every Withdrawal with the
\* same amount on the corresponding source cycle
C21_BackupRoundTrip ==
    LET R == importDatabaseFromJSON(db, exportDatabaseAsJSON(db), today, Unlimited)
    IN  Completed(R) /\ StoreShape(R.db) = StoreShape(db)

\* C21 for a store that holds nothing the backup leaves out or rewrites: no
\* soft-deleted person, no closed cycle, no skipped row
C21_RoundTripOfPlainStore ==
    LET R == importDatabaseFromJSON(db, exportDatabaseAsJSON(db), today, Unlimited)
    IN  (/\ \A p \in db.people : p.isActive
         /\ ClosedCycles(db) = {}
         /\ \A r \in db.collections : r.status = "collected")
            => Completed(R) /\ StoreShape(R.db) = StoreShape(db)

\* C22: deletePerson(p) only sets the person's isActive flag to false: the
\* person row still exists, and every Cycle, Collection and Withdrawal of that
\* person and of every other person is unchanged, the isActive flag and the
\* totalAmount of the person's active cycle included
C22_DeletePersonFrame ==
    \A p \in PersonIds :
        PersonExists(db, p) =>
            LET R == deletePerson(db, p, Unlimited)
                row == CHOOSE q \in db.people : q.id = p
            IN  /\ Completed(R)
                /\ R.db.people =
                       (db.people \ {row}) \cup {[row EXCEPT !.isActive = FALSE]}
                /\ R.db.cycles = db.cycles
                /\ R.db.collections = db.collections
                /\ R.db.withdrawals = db.withdrawals
                /\ getActiveCycle(R.db, p) = getActiveCycle(db, p)

\* a person with a balance and a collected row was just deleted
\* and still has both
C22_Witness ==
    /\ last.op = "deletePerson" /\ last.outcome = "ok"
    /\ \E q \in db.people : q.id = last.person /\ ~q.isActive
    /\ ActiveCycles(db, last.person) # {}
    /\ \E r \in db.collections : r.personId = last.person /\ r.amount > 0
    /\ \E c \in db.cycles : c.personId = last.person /\ c.totalAmount > 0

WellFormedRow(r) ==
    \/ r.status = "collected" /\ r.amount # NULL
    \/ r.status = "skipped" /\ r.amount = NULL

\* C23: in every reachable state, after a restore from an exported backup
\* included, every stored Collection row has either status collected with a
\* non-null amount or status skipped with a null amount; the status pending is
\* never stored
C23_StoredStatuses ==
    \A r \in db.collections : WellFormedRow(r)

\* C23 for the rows the engine writes: the row recordCollection or
\* skipCollection leaves for the day is well formed
C23_EngineWritesWellFormedRows ==
    \A p \in PersonIds :
        /\ \A a \in Amounts :
             LET R == recordCollection(db, p, a, today, Unlimited)
             IN  \A r \in RowsAt(R.db, p, today) : WellFormedRow(r)
        /\ LET R == skipCollection(db, p, today, Unlimited)
           IN  \A r \in RowsAt(R.db, p, today) : WellFormedRow(r)

\* ---- the reference scenario ----

\* the largest amount of the scenario, in units of 50 (200 is 4, 250 is 5)
MaxScenarioAmount == 5

\* the person's default amount, the custom amount of day 3 and the amount of
\* the partial withdrawal, which the default amount covers
Scenarios ==
    {sc \in [defaultAmount : 1 .. MaxScenarioAmount,
             customAmount : 1 .. MaxScenarioAmount,
             partialAmount : 1 .. MaxScenarioAmount] :
        sc.partialAmount <= sc.defaultAmount}

\* the person of the scenario is the first one added
ScenarioPerson == 1

InitScenario ==
    /\ db = EmptyDb
    /\ today = 1
    /\ last = [op |-> "none", person |-> NULL, outcome |-> "ok"]
    /\ ops = 0
    /\ crashed = FALSE
    /\ scenario \in Scenarios
    /\ inflight = NoCalls

\* the call that is step number step of the scenario
Played(R, op, step) ==
    /\ ops = step - 1
    /\ ~R.halted
    /\ db' = R.db
    /\ last' = [op |-> op, person |-> ScenarioPerson, outcome |-> Outcome(R)]
    /\ ops' = ops + 1
    /\ UNCHANGED <<today, crashed, scenario, inflight>>

\* the midnight that is step number step of the scenario
Midnight(step) ==
    /\ ops = step - 1
    /\ today' = today + 1
    /\ ops' = ops + 1
    /\ UNCHANGED <<db, last, crashed, scenario, inflight>>

ScenarioAddPerson ==
    Played(addPerson(db, TRUE, today, Unlimited), "addPerson", 1)

ScenarioCollectDay1 ==
    Played(recordCollection(db, ScenarioPerson, scenario.defaultAmount, today,
                            Unlimited), "recordCollection", 2)

ScenarioMidnight1 == Midnight(3)

ScenarioSkipDay2 ==
    Played(skipCollection(db, ScenarioPerson, today, Unlimited),
           "skipCollection", 4)

ScenarioMidnight2 == Midnight(5)

ScenarioCollectDay3 ==
    Played(recordCollection(db, ScenarioPerson, scenario.customAmount, today,
                            Unlimited), "recordCollection", 6)

ScenarioUndoDay3 ==
    Played(undoCollection(db, ScenarioPerson, today, Unlimited),
           "undoCollection", 7)

ScenarioPartialWithdrawal ==
    Played(processPartialWithdrawal(db, ScenarioPerson, scenario.partialAmount,
                                    today, Unlimited),
           "processPartialWithdrawal", 8)

ScenarioFullWithdrawal ==
    Played(processWithdrawal(db, ScenarioPerson, today, Unlimited),
           "processWithdrawal", 9)

NextScenario ==
    \/ ScenarioAddPerson
    \/ ScenarioCollectDay1
    \/ ScenarioMidnight1
    \/ ScenarioSkipDay2
    \/ ScenarioMidnight2
    \/ ScenarioCollectDay3
    \/ ScenarioUndoDay3
    \/ ScenarioPartialWithdrawal
    \/ ScenarioFullWithdrawal

SpecScenario == InitScenario /\ [][NextScenario]_vars

\* C24: for a new person with default amount d, the sequence day 1
\* recordCollection d, day 2 skipCollection, day 3 recordCollection c, day 3
\* undoCollection, processPartialWithdrawal w, processWithdrawal produces the
\* active-cycle totals d, d, d + c, d, d - w in that order with the same cycle
\* active throughout, then a full Withdrawal of d - w and a new active cycle of
\* total 0, the day 1 collected row and the day 2 skipped row staying on the
\* closed cycle (the reference scenario is d = 200, c = 250, w = 150)
C24_ReferenceScenario ==
    LET d == scenario.defaultAmount
        c == scenario.customAmount
        w == scenario.partialAmount
        first == 1
        active == getActiveCycle(db, ScenarioPerson)
    IN  /\ ops >= 1 => last.outcome = "ok"
        /\ ops \in 1 .. 8 =>
               /\ ActiveCycles(db, ScenarioPerson) = {active}
               /\ db.cycles = {active} /\ active.id = first
        /\ ops \in 2 .. 3 => active.totalAmount = d
        /\ ops \in 4 .. 5 => active.totalAmount = d
        /\ ops = 6 => active.totalAmount = d + c
        /\ ops = 7 => active.totalAmount = d
        /\ ops = 8 => active.totalAmount = d - w
        /\ ops = 9 =>
               /\ \E full \in db.withdrawals :
                      /\ full.amount = d - w /\ full.cycleId = first
                      /\ full.id = db.seqWithdrawals
                      /\ Cardinality(db.withdrawals) = 2
               /\ ActiveCycles(db, ScenarioPerson) = {active}
               /\ active.id # first /\ active.totalAmount = 0
               /\ ClosedCycles(db) = {CycleOf(db, first)}
               /\ CollectionsOf(db, first) =
                      {CollectedRow(ScenarioPerson, first, 1, d),
                       SkippedRow(ScenarioPerson, first, 2)}
               /\ db.collections = CollectionsOf(db, first)

\* the reference scenario itself (200, 250, 150 in units of 50) has been
\* played to its end: the full withdrawal paid out 50
C24_Witness ==
    /\ ops = 9
    /\ scenario = [defaultAmount |-> 4, customAmount |-> 5, partialAmount |-> 3]
    /\ last.op = "processWithdrawal" /\ last.outcome = "ok"
    /\ \E full \in db.withdrawals : full.amount = 1 /\ full.id = 2
    /\ getActiveCycle(db, ScenarioPerson).totalAmount = 0

\* ---- the adjust screen (app/person/adjust/[id].tsx) ----

\* handleSave with a plausible slip: the amount is only checked to be a number
handleSaveAnyNumber(S, cycle, amount, isNaN, dateOk, startDate, fuel) ==
    LET R0 == Begin(S, fuel)
    IN  IF cycle = NoCycle THEN [run |-> R0, alert |-> "none"]
        ELSE IF isNaN THEN [run |-> R0, alert |-> "Error"]
        ELSE IF ~dateOk THEN [run |-> R0, alert |-> "Error"]
        ELSE LET R1 == updateCycleData(S, cycle.id, amount, startDate, fuel)
             IN  [run |-> R1, alert |-> IF R1.err THEN "Error" ELSE "Success"]

\* handleSave: cycle is the active cycle the screen has loaded, amount is
\* parseInt of the text typed (isNaN when it is no number), dateOk says that
\* the date typed has the form DD-MM-YYYY; the result is the run of the
\* engine call, if one was made, and the alert shown
handleSave(S, cycle, amount, isNaN, dateOk, startDate, fuel) ==
    LET R0 == Begin(S, fuel)
    IN  IF cycle = NoCycle THEN [run |-> R0, alert |-> "none"]
        ELSE IF isNaN \/ amount < 0 THEN [run |-> R0, alert |-> "Error"]
        ELSE IF ~dateOk THEN [run |-> R0, alert |-> "Error"]
        ELSE LET R1 == updateCycleData(S, cycle.id, amount, startDate, fuel)
             IN  [run |-> R1, alert |-> IF R1.err THEN "Error" ELSE "Success"]

\* the amounts typed into the adjust screen, negative ones included
AdjustAmounts == (0 - 2) .. MaxAmount

\* C25: a manual adjustment that would set a cycle's totalAmount to a
\* negative value is rejected and leaves the cycle's totalAmount and
\* startDate unchanged; an accepted updateCycleData overwrites only the given
\* fields of the one cycle with that id and leaves every other cycle,
\* Collection and Withdrawal unchanged
C25_ManualCorrection ==
    /\ \A p \in PersonIds, amount \in AdjustAmounts, s \in Days :
         ActiveCycles(db, p) # {} =>
            LET c == getActiveCycle(db, p)
                H == handleSave(db, c, amount, FALSE, TRUE, s, Unlimited)
            IN  /\ amount < 0 => H.alert = "Error" /\ H.run.db = db
                /\ amount >= 0 =>
                      /\ H.alert = "Success"
                      /\ H.run.db =
                             [db EXCEPT !.cycles = (@ \ {c}) \cup
                                 {[c EXCEPT !.totalAmount = amount,
                                            !.startDate = s]}]
    /\ \A c \in db.cycles, t \in Amounts \cup {NULL}, s \in {today, NULL} :
         LET U == updateCycleData(db, c.id, t, s, Unlimited)
         IN  /\ Completed(U)
             /\ U.db =
                    [db EXCEPT !.cycles = (@ \ {c}) \cup
                        {[c EXCEPT
                            !.totalAmount = IF t = NULL THEN @ ELSE t,
                            !.startDate = IF s = NULL THEN @ ELSE s]}]

\* the total of an active cycle that has a row was just adjusted by hand to
\* a value that is not the sum of its rows, and an adjustment to a negative
\* total is refused now
C25_Witness ==
    /\ last.op = "updateCycleData" /\ last.outcome = "ok"
    /\ \E c \in db.cycles :
         /\ c.id = last.person /\ c.isActive
         /\ CollectionsOf(db, c.id) # {}
         /\ c.totalAmount # CollectedSum(db, c.id)
         /\ LET H == handleSave(db, c, 0 - 2, FALSE, TRUE, today, Unlimited)
            IN  H.alert = "Error" /\ H.run.db = db

\* ---- the monthly report (services/export.ts) ----

RECURSIVE sumOf(_, _)
\* the sum of fn over set, as the loops of the report accumulate it
sumOf(fn, set) ==
    IF set = {} THEN 0
    ELSE LET x == CHOOSE y \in set : TRUE
         IN  fn[x] + sumOf(fn, set \ {x})

\* getCollectionsByDateRange: ... WHERE person_id = ? AND date >= ? AND date <= ?
getCollectionsByDateRange(S, personId, startDate, endDate) ==
    {r \in S.collections :
        r.personId = personId /\ r.date >= startDate /\ r.date <= endDate}

\* col.status === 'collected' && col.amount
countsInReport(col) ==
    col.status = "collected" /\ col.amount # NULL /\ col.amount # 0

\* generateMonthlyReportCSV and generateMonthlyReportPDF up to the layout:
\* the month runs from startDate to endDate; dates are the keys of
\* dataByDate, cells is dataByDate[date][person.id] || 0
generateMonthlyReport(S, startDate, endDate) ==
    LET people == {p.id : p \in {q \in S.people : q.isActive}}
        rowsOf(p) == getCollectionsByDateRange(S, p, startDate, endDate)
        dates == UNION {{col.date : col \in rowsOf(p)} : p \in people}
        cells == [date \in dates |-> [p \in people |->
                     LET hit == {col \in rowsOf(p) :
                                    col.date = date /\ countsInReport(col)}
                     IN  IF hit = {} THEN 0 ELSE (CHOOSE col \in hit : TRUE).amount]]
        personTotals == [p \in people |->
                            LET counted == {col \in rowsOf(p) : countsInReport(col)}
                            IN  sumOf([col \in counted |-> col.amount], counted)]
        dailyTotals == [date \in dates |-> sumOf(cells[date], people)]
    IN  [people |-> people, dates |-> dates, cells |-> cells,
         personTotals |-> personTotals, dailyTotals |-> dailyTotals,
         grandTotal |-> sumOf(dailyTotals, dates)]

\* the collected amount stored for (person, date), 0 when there is none
CollectedAt(S, personId, day) == collectedAmount(getTodayCollection(S, personId, day))

\* the cells and totals of the report are the collected amounts and their sums
PivotTotalsRight(S, report, startDate, endDate) ==
    /\ \A date \in report.dates, p \in report.people :
           report.cells[date][p] = CollectedAt(S, p, date)
    /\ \A p \in report.people :
           report.personTotals[p] =
               sumOf([date \in report.dates |-> report.cells[date][p]], report.dates)
    /\ report.grandTotal = sumOf(report.dailyTotals, report.dates)
    /\ report.grandTotal = sumOf(report.personTotals, report.people)

\* C26: the report grid of a month has one row for exactly those dates of the
\* month on which at least one active person has a collected entry (a date
\* holding only skipped rows produces no row); each cell is the person's
\* collected amount for the date; each per-person total is the sum of the
\* person's cells; the grand total equals both the sum of the daily totals
\* and the sum of the per-person totals
C26_MonthlyPivot ==
    \A startDate \in Days, endDate \in Days :
        LET report == generateMonthlyReport(db, startDate, endDate)
        IN  /\ report.dates =
                   {date \in startDate .. endDate :
                       \E col \in db.collections :
                           /\ col.date = date /\ col.status = "collected"
                           /\ col.personId \in report.people}
            /\ PivotTotalsRight(db, report, startDate, endDate)

\* C26 as the code has it: the grid has one row for every date of the month
\* on which an active person has a row of any status, and its cells and
\* totals are the collected amounts and their sums
C26_PivotOfEveryStoredDate ==
    \A startDate \in Days, endDate \in Days :
        LET report == generateMonthlyReport(db, startDate, endDate)
        IN  /\ report.dates =
                   {date \in startDate .. endDate :
                       \E col \in db.collections :
                           col.date = date /\ col.personId \in report.people}
            /\ PivotTotalsRight(db, report, startDate, endDate)

\* the sum of the amounts of the Withdrawals recorded against a cycle
WithdrawnSum(S, cycleId) ==
    LET paid == {w \in S.withdrawals : w.cycleId = cycleId}
    IN  sumOf([w \in paid |-> w.amount], paid)

\* C27: in every state reachable by completed recordCollection,
\* skipCollection, undoCollection, processWithdrawal and
\* processPartialWithdrawal calls only, each person's active cycle satisfies
\* totalAmount = (sum of the amounts of the collected rows attached to the
\* cycle) - (sum of the Withdrawal amounts recorded against the cycle)
C27_Reconciliation ==
    ~crashed =>
        \A q \in db.people :
            \A c \in ActiveCycles(db, q.id) :
                c.totalAmount = CollectedSum(db, c.id) - WithdrawnSum(db, c.id)

\* ---------------------------------------------------------------------------
\* Two engine calls in flight together.  Every await of recordCollection and
\* processWithdrawal is a point where the other call can run: the dashboard's
\* handleCollect awaits recordCollection without an in-flight guard, and the
\* engine functions use no transaction.
\* ---------------------------------------------------------------------------

\* no call has started
Quiet == \A i \in CallIds : inflight.calls[i].pc = "idle"

\* the calls that have started
Started == {i \in CallIds : inflight.calls[i].pc # "idle"}

\* a call starts, the second tap after the first; both taps are on the same
\* person and the same button
StartCall(i, op, personId, amount) ==
    /\ inflight.calls[i].pc = "idle"
    /\ \A j \in CallIds : j < i => j \in Started
    /\ \A j \in Started : /\ inflight.calls[j].op = op
                          /\ inflight.calls[j].personId = personId
    /\ inflight' =
         [calls |-> [inflight.calls EXCEPT ![i] =
                        [NoCall EXCEPT !.op = op, !.pc = "getActiveCycle",
                                       !.personId = personId,
                                       !.amount = amount]],
          before |-> IF Started = {} THEN db ELSE inflight.before]
    /\ UNCHANGED <<db, today, last, ops, crashed, scenario>>

\* handleCollect: a tap on a person's tile calls recordCollection
StartRecordCollection ==
    \E i \in CallIds, p \in PersonIds, a \in Amounts :
        /\ PersonExists(db, p)
        /\ StartCall(i, "recordCollection", p, a)

\* handleConfirmWithdrawal: a tap on Confirm calls processWithdrawal
StartProcessWithdrawal ==
    \E i \in CallIds, p \in PersonIds :
        /\ PersonExists(db, p)
        /\ StartCall(i, "processWithdrawal", p, NULL)

\* the call moves to its next position with new local variables
Resume(i, c) ==
    /\ inflight' = [inflight EXCEPT !.calls[i] = c]
    /\ UNCHANGED <<today, last, ops, crashed, scenario>>

\* one awaited write of call i: a failed write throws out of the function
Write(i, R, c) ==
    IF R.err
    THEN /\ Resume(i, [inflight.calls[i] EXCEPT !.pc = "done",
                                               !.outcome = "error"])
         /\ UNCHANGED db
    ELSE /\ Resume(i, c)
         /\ db' = R.db

\* `const cycle = await getActiveCycle(personId)` of either function
StepGetActiveCycle ==
    \E i \in CallIds :
        LET c == inflight.calls[i]
            cycle == getActiveCycle(db, c.personId)
        IN  /\ c.pc = "getActiveCycle"
            /\ UNCHANGED db
            /\ IF cycle # NoCycle
               THEN Resume(i, [c EXCEPT !.cycleId = cycle.id,
                                        !.totalAmount = cycle.totalAmount,
                                        !.pc = IF c.op = "recordCollection"
                                               THEN "getTodayCollection"
                                               ELSE "insertWithdrawal"])
               ELSE IF c.op = "recordCollection"
               THEN Resume(i, [c EXCEPT !.pc = "createCycle"])
               ELSE Resume(i, [c EXCEPT !.pc = "done", !.outcome = "error"])

\* `await createCycle(personId)`: the lazy cycle of recordCollection, or the
\* last step of processWithdrawal
StepCreateCycle ==
    \E i \in CallIds :
        LET c == inflight.calls[i]
            R == createCycle(Begin(db, Unlimited), c.personId, today)
        IN  /\ c.pc = "createCycle"
            /\ Write(i, R,
                 IF c.op = "recordCollection"
                 THEN [c EXCEPT !.cycleId = R.ret, !.pc = "getTodayCollection"]
                 ELSE [c EXCEPT !.pc = "done", !.outcome = "ok"])

\* `const existingCollection = await getTodayCollection(personId)`
StepGetTodayCollection ==
    \E i \in CallIds :
        LET c == inflight.calls[i]
        IN  /\ c.pc = "getTodayCollection"
            /\ UNCHANGED db
            /\ Resume(i, [c EXCEPT
                   !.existingAmount =
                       collectedAmount(
                           getTodayCollection(db, c.personId, today)),
                   !.pc = "insertCollection"])

\* the INSERT OR REPLACE of recordCollection
StepInsertCollection ==
    \E i \in CallIds :
        LET c == inflight.calls[i]
            R == runAsync(Begin(db, Unlimited),
                     ForeignKeysOk(db, c.personId, c.cycleId),
                     insertOrReplaceCollection(db,
                         [personId |-> c.personId, cycleId |-> c.cycleId,
                          date |-> today, amount |-> c.amount,
                          status |-> "collected"]),
                     NULL)
        IN  /\ c.pc = "insertCollection"
            /\ Write(i, R, [c EXCEPT !.pc = "updateTotal"])

\* `UPDATE cycles SET total_amount = total_amount + difference`
StepUpdateTotal ==
    \E i \in CallIds :
        LET c == inflight.calls[i]
            R == runAsync(Begin(db, Unlimited), TRUE,
                     addToTotal(db, c.cycleId, c.amount - c.existingAmount),
                     NULL)
        IN  /\ c.pc = "updateTotal"
            /\ Write(i, R, [c EXCEPT !.pc = "done", !.outcome = "ok"])

\* the INSERT INTO withdrawals of processWithdrawal
StepInsertWithdrawal ==
    \E i \in CallIds :
        LET c == inflight.calls[i]
            R == insertWithdrawal(Begin(db, Unlimited), c.personId, c.cycleId,
                                  c.totalAmount, today)
        IN  /\ c.pc = "insertWithdrawal"
            /\ Write(i, R, [c EXCEPT !.pc = "closeCycle"])

\* `await closeCycle(cycle.id)`
StepCloseCycle ==
    \E i \in CallIds :
        LET c == inflight.calls[i]
            R == closeCycle(Begin(db, Unlimited), c.cycleId, today)
        IN  /\ c.pc = "closeCycle"
            /\ Write(i, R, [c EXCEPT !.pc = "createCycle"])

\* the calls made one at a time before the first tap of the pair
MaxQuietOps == 2

QuietAddPerson == Quiet /\ ops < MaxQuietOps /\ AddPerson

QuietRecordCollection == Quiet /\ ops < MaxQuietOps /\ RecordCollection

QuietKilledAddPerson == Quiet /\ ops < MaxQuietOps /\ KilledAddPerson

NextRace ==
    \/ QuietAddPerson
    \/ QuietRecordCollection
    \/ QuietKilledAddPerson
    \/ StartRecordCollection
    \/ StartProcessWithdrawal
    \/ StepGetActiveCycle
    \/ StepCreateCycle
    \/ StepGetTodayCollection
    \/ StepInsertCollection
    \/ StepUpdateTotal
    \/ StepInsertWithdrawal
    \/ StepCloseCycle

SpecRace == Init /\ [][NextRace]_vars

\* both calls of the pair have returned normally
BothReturned(op) ==
    \A i \in CallIds : /\ inflight.calls[i].op = op
                       /\ inflight.calls[i].pc = "done"
                       /\ inflight.calls[i].outcome = "ok"

\* the store after call i and then call j of recordCollection, one at a time
InOrder(i, j) ==
    LET ci == inflight.calls[i]
        cj == inflight.calls[j]
        S1 == recordCollection(inflight.before, ci.personId, ci.amount,
                               today, Unlimited).db
    IN  recordCollection(S1, cj.personId, cj.amount, today, Unlimited).db

\* a call that ran with no other call in flight did what the engine function
\* does in one piece
RaceAloneIsSequential ==
    \A i \in CallIds :
        LET c == inflight.calls[i]
        IN  (Started = {i} /\ c.pc = "done") =>
               LET R == IF c.op = "recordCollection"
                        THEN recordCollection(inflight.before, c.personId,
                                              c.amount, today, Unlimited)
                        ELSE processWithdrawal(inflight.before, c.personId,
                                               today, Unlimited)
               IN  /\ db = R.db
                   /\ c.outcome = Outcome(R)

\* C28: two recordCollection calls for the same person and date whose
\* storage steps interleave end in a state that one of the two sequential
\* orders of the calls produces: one Collection row, a cycle total increased
\* by that row's amount minus the collected amount stored before both calls,
\* and one active cycle only.
C28_InterleavedRecordsSerialize ==
    BothReturned("recordCollection") =>
        LET p == inflight.calls[1].personId
            e == collectedAmount(getTodayCollection(inflight.before, p, today))
            totalBefore == IF getActiveCycle(inflight.before, p) = NoCycle
                           THEN 0
                           ELSE getActiveCycle(inflight.before, p).totalAmount
        IN  /\ db \in {InOrder(1, 2), InOrder(2, 1)}
            /\ Cardinality(RowsAt(db, p, today)) = 1
            /\ Cardinality(ActiveCycles(db, p)) = 1
            /\ \A c \in ActiveCycles(db, p) : \A r \in RowsAt(db, p, today) :
                   c.totalAmount = totalBefore + r.amount - e

\* C29: two processWithdrawal calls for the same person whose storage steps
\* interleave have, once both have returned, never left the person with two
\* active cycles and never recorded two Withdrawals of the same cycle balance
\* against the same cycle.
C29_InterleavedWithdrawalsSafe ==
    (\A i \in CallIds : /\ inflight.calls[i].op = "processWithdrawal"
                        /\ inflight.calls[i].pc = "done") =>
        LET p == inflight.calls[1].personId
        IN  /\ Cardinality(ActiveCycles(db, p)) <= 1
            /\ \A w1, w2 \in db.withdrawals :
                   (w1.cycleId = w2.cycleId /\ w1.amount = w2.amount)
                       => w1.id = w2.id

\* the cycles of store S that store T holds with other contents, or not at all
WrittenCycles(S, T) == {c \in S.cycles : c \notin T.cycles}

\* C30: a cycle closed by processWithdrawal keeps the totalAmount it had, equal
\* to the amount of the full Withdrawal recorded against it, and no
\* recordCollection, skipCollection, undoCollection, processWithdrawal or
\* processPartialWithdrawal call changes the totalAmount, startDate or endDate
\* of a closed cycle: each of them writes only to a cycle that is active when
\* it runs
C30_ClosedCycleFrame ==
    [][CallStep(LedgerOps) =>
          /\ \A c \in ClosedCycles(db) :
                 \E d \in db'.cycles :
                     /\ d.id = c.id
                     /\ d.totalAmount = c.totalAmount
                     /\ d.startDate = c.startDate
                     /\ d.endDate = c.endDate
          /\ \A c \in WrittenCycles(db, db') :
                 c \in ActiveCycles(db, last'.person)
          /\ \A d \in ClosedCycles(db') :
                 (\E c \in db.cycles : c.id = d.id /\ c.isActive) =>
                     /\ last'.op = "processWithdrawal"
                     /\ d.totalAmount = CycleOf(db, d.id).totalAmount
                     /\ d.startDate = CycleOf(db, d.id).startDate
                     /\ \E w \in db'.withdrawals \ db.withdrawals :
                            /\ w.cycleId = d.id
                            /\ w.amount = d.totalAmount]_vars

\* a person's cycle was closed by a full withdrawal of a positive balance, the
\* Withdrawal of that amount is recorded against it, and a collection recorded
\* afterwards went to the new active cycle
C30_Witness ==
    /\ last.op = "recordCollection" /\ last.outcome = "ok"
    /\ \E c \in ClosedCycles(db) :
           /\ c.personId = last.person
           /\ c.totalAmount > 0
           /\ \E w \in db.withdrawals :
                  w.cycleId = c.id /\ w.amount = c.totalAmount
           /\ \E d \in ActiveCycles(db, last.person) :
                  d.id > c.id /\ d.totalAmount > 0

====
